---- MODULE Spec2Model ----
(***************************************************************************)
(* LSB steganography of kirki58/steg (src/src/lsb.py, src/src/main.py):    *)
(* a byte blob is turned into bits, split over carrier images by capacity, *)
(* framed with a 96-bit header and written into the red-channel LSBs; the  *)
(* decoder reads the frames back and reassembles the blob.                 *)
(***************************************************************************)
EXTENDS Integers, Sequences, FiniteSets, TLC

\* ------------------------------------------------------------ bounds ----
MaxBytes == 2          \* longest payload blob, in bytes
MaxImages == 3         \* longest carrier image list
MaxDecImages == 3      \* most stego images handed to one stand-alone decode

\* --------------------------------------------------- program constants ----
HeaderFieldBits == 32
HeaderBits == 96

\* ------------------------------------------------------ input domains ----
\* payload byte values (0xDE, 0xAD)
ByteVals == {222, 173}
\* carrier sizes <<width, height>>: 95, 96, 100 and 104 pixels
Dims == {<<19, 5>>, <<12, 8>>, <<10, 10>>, <<13, 8>>}
\* frames <<chunk_index, total_chunks, payload bits>> of the stego images a
\* stand-alone decode may be handed: complete sets, a repeated index, an index
\* outside its total, and differing totals
PoolFrames ==
    {<<0, 2, <<1, 1, 0, 1>>>>,
     <<1, 2, <<1, 0, 1, 0, 0, 1, 1, 0>>>>,
     <<0, 2, <<1, 0, 1, 0, 0, 1, 1, 0>>>>,
     <<2, 2, <<1, 1, 0, 1>>>>,
     <<1, 3, <<1, 1, 0, 1>>>>,
     <<2, 3, <<1, 0, 1, 0, 0, 1, 1, 0>>>>,
     <<0, 1, <<1, 1, 0, 1>>>>}

None == "None"

\* an exception: its kind and the numbers its arguments carry
Err(kind, data) == [kind |-> kind, data |-> data]
NoError == Err(None, <<>>)

\* a value that may be None: <<>> is None, <<v>> is the value v
NoValue == <<>>
Some(v) == <<v>>
ValueOf(o) == o[1]

\* ------------------------------------------------------------ helpers ----
Min(a, b) == IF a < b THEN a ELSE b

RECURSIVE SumSeq(_)
SumSeq(s) == IF s = <<>> THEN 0 ELSE Head(s) + SumSeq(Tail(s))

RECURSIVE Concat(_)
Concat(ss) == IF ss = <<>> THEN <<>> ELSE Head(ss) \o Concat(Tail(ss))

\* val >> i for 0 <= val < 2^31
ShiftRight(val, i) == IF i >= 31 THEN 0 ELSE val \div (2 ^ i)

\* Python list slice s[a:b] (0-based, negative indices count from the end)
PySlice(s, a, b) ==
    LET n  == Len(s)
        na == IF a < 0 THEN (IF a + n < 0 THEN 0 ELSE a + n) ELSE Min(a, n)
        nb == IF b < 0 THEN (IF b + n < 0 THEN 0 ELSE b + n) ELSE Min(b, n)
    IN IF na >= nb THEN <<>> ELSE [k \in 1..(nb - na) |-> s[na + k]]

\* ------------------------------------------------------------ images ----
\* an RGB raster: pixels[y + 1][x + 1] = <<r, g, b>> is the pixel at (x, y)
MkImage(width, height) ==
    [width  |-> width,
     height |-> height,
     pixels |-> [row \in 1..height |-> [col \in 1..width |->
                   <<(37 * (col - 1) + 91 * (row - 1) + 200) % 256,
                     (5 * (col - 1) + 3 * (row - 1) + 1) % 256,
                     (11 * (col - 1) + 7 * (row - 1) + 2) % 256>>]]]

\* a carrier file is named by its size; Image.open(img_path) reads its raster
OpenImage(img_path) == MkImage(img_path[1], img_path[2])

PixelAt(img, x, y) == img.pixels[y + 1][x + 1]

\* -------------------------------------------------------- bit codec ----
bytes_to_bits(data) ==
    [k \in 1..(8 * Len(data)) |->
        ShiftRight(data[((k - 1) \div 8) + 1], 7 - ((k - 1) % 8)) % 2]

RECURSIVE ByteAt(_, _, _, _)
ByteAt(bits, b, i, byte) ==
    IF i >= 8 THEN byte
    ELSE IF b + i < Len(bits)
         THEN ByteAt(bits, b, i + 1, byte * 2 + bits[b + i + 1])
         ELSE ByteAt(bits, b, i + 1, byte * 2)

bits_to_bytes(bits) ==
    [j \in 1..((Len(bits) + 7) \div 8) |-> ByteAt(bits, 8 * (j - 1), 0, 0)]

IntToBits(val) ==
    [k \in 1..HeaderFieldBits |-> ShiftRight(val, HeaderFieldBits - k) % 2]

RECURSIVE bits_to_int(_)
bits_to_int(bits_slice) ==
    IF bits_slice = <<>> THEN 0
    ELSE 2 * bits_to_int(SubSeq(bits_slice, 1, Len(bits_slice) - 1))
         + bits_slice[Len(bits_slice)]

\* ---------------------------------------------------------- carrier ----
header_bits(chunk_index, total_chunks, n) ==
    IntToBits(chunk_index) \o IntToBits(total_chunks) \o IntToBits(n)

\* mutant: the bit is or-ed in without clearing the LSB first
RECURSIVE EmbedRow_OrBit(_, _, _, _, _, _)
EmbedRow_OrBit(pixels, full_bits, width, x, y, bit_idx) ==
    IF x >= width \/ bit_idx >= Len(full_bits) THEN <<pixels, bit_idx>>
    ELSE LET p == pixels[y + 1][x + 1]
             r == IF p[1] % 2 = 1 THEN p[1] ELSE p[1] + full_bits[bit_idx + 1]
         IN EmbedRow_OrBit([pixels EXCEPT ![y + 1][x + 1] = <<r, p[2], p[3]>>],
                           full_bits, width, x + 1, y, bit_idx + 1)

\* inner loop over x of row y: <<pixels, bit_idx>> when the row is left
RECURSIVE EmbedRow(_, _, _, _, _, _)
EmbedRow(pixels, full_bits, width, x, y, bit_idx) ==
    IF x >= width \/ bit_idx >= Len(full_bits) THEN <<pixels, bit_idx>>
    ELSE LET p == pixels[y + 1][x + 1]
             r == (p[1] - (p[1] % 2)) + full_bits[bit_idx + 1]
         IN EmbedRow([pixels EXCEPT ![y + 1][x + 1] = <<r, p[2], p[3]>>],
                     full_bits, width, x + 1, y, bit_idx + 1)

\* outer loop over y
RECURSIVE EmbedRows(_, _, _, _, _, _)
EmbedRows(pixels, full_bits, width, height, y, bit_idx) ==
    IF y >= height THEN pixels
    ELSE LET res == EmbedRow(pixels, full_bits, width, 0, y, bit_idx)
         IN IF res[2] >= Len(full_bits) THEN res[1]
            ELSE EmbedRows(res[1], full_bits, width, height, y + 1, res[2])

\* [ok, img]: ok = FALSE is the ValueError of line 50, nothing is saved
embed_bits_in_image(img_path, bits, chunk_index, total_chunks) ==
    LET img        == OpenImage(img_path)
        num_pixels == img.width * img.height
        full_bits  == header_bits(chunk_index, total_chunks, Len(bits)) \o bits
    IN IF Len(full_bits) > num_pixels
       THEN [ok |-> FALSE, img |-> img]
       ELSE [ok |-> TRUE,
             img |-> [img EXCEPT !.pixels =
                        EmbedRows(img.pixels, full_bits, img.width, img.height, 0, 0)]]

\* the red LSBs in the order the nested loops append them
ReadBits(img) ==
    [k \in 1..(img.width * img.height) |->
        PixelAt(img, (k - 1) % img.width, (k - 1) \div img.width)[1] % 2]

\* <<chunk_index, total_chunks, data_bytes>>
extract_bits_from_image(img) ==
    LET bits        == ReadBits(img)
        hdr         == PySlice(bits, 0, HeaderBits)
        chunk_index == bits_to_int(PySlice(hdr, 0, 32))
        total       == bits_to_int(PySlice(hdr, 32, 64))
        data_length == bits_to_int(PySlice(hdr, 64, 96))
        data_bits   == PySlice(bits, HeaderBits, HeaderBits + data_length)
    IN <<chunk_index, total, bits_to_bytes(data_bits)>>

\* ---------------------------------------------------------- planner ----
\* mutant: the header is not reserved
Capacities_NoHeader(image_paths) ==
    [j \in 1..Len(image_paths) |->
        OpenImage(image_paths[j]).width * OpenImage(image_paths[j]).height]

Capacities(image_paths) ==
    [j \in 1..Len(image_paths) |->
        OpenImage(image_paths[j]).width * OpenImage(image_paths[j]).height
            - HeaderBits]

\* mutant: the slice ends at cap instead of bit_pos + cap
RECURSIVE SplitChunks_AbsoluteEnd(_, _, _, _)
SplitChunks_AbsoluteEnd(zip_bits, caps, j, bit_pos) ==
    IF j > Len(caps) THEN <<>>
    ELSE <<PySlice(zip_bits, bit_pos, caps[j])>>
         \o SplitChunks_AbsoluteEnd(zip_bits, caps, j + 1, bit_pos + caps[j])

\* the split loop of embed_zip_of_dir_into_images
RECURSIVE SplitChunks(_, _, _, _)
SplitChunks(zip_bits, caps, j, bit_pos) ==
    IF j > Len(caps) THEN <<>>
    ELSE <<PySlice(zip_bits, bit_pos, bit_pos + caps[j])>>
         \o SplitChunks(zip_bits, caps, j + 1, bit_pos + caps[j])

\* the report loop of dry_run_encode: <<image position, used bits>> per line
RECURSIVE DryLines(_, _, _)
DryLines(caps, i, remaining) ==
    IF i > Len(caps) THEN <<>>
    ELSE LET used == Min(caps[i], remaining)
         IN IF remaining - used <= 0 THEN << <<i - 1, used>> >>
            ELSE << <<i - 1, used>> >> \o DryLines(caps, i + 1, remaining - used)

dry_report_of(zip, images) ==
    LET total_bits_needed == Len(bytes_to_bits(zip))
        caps              == Capacities(images)
        total_capacity    == SumSeq(caps)
    IN IF total_capacity < total_bits_needed
       THEN [enough |-> FALSE, total_capacity |-> total_capacity,
             short |-> total_bits_needed - total_capacity, lines |-> <<>>]
       ELSE [enough |-> TRUE, total_capacity |-> total_capacity,
             short |-> 0, lines |-> DryLines(caps, 1, total_bits_needed)]

\* ------------------------------------------------------- chunk dict ----
\* chunks_dict is a Python dict: <<key, value>> pairs in insertion order
DictKeys(d) == {d[k][1] : k \in 1..Len(d)}

DictGet(d, key) == LET k == CHOOSE k \in 1..Len(d) : d[k][1] = key IN d[k][2]

\* mutant: a key already present keeps its first value
DictSet_KeepFirst(d, key, val) ==
    IF key \in DictKeys(d) THEN d ELSE Append(d, <<key, val>>)

DictSet(d, key, val) ==
    IF key \in DictKeys(d)
    THEN [k \in 1..Len(d) |-> IF d[k][1] = key THEN <<key, val>> ELSE d[k]]
    ELSE Append(d, <<key, val>>)

\* mutant: the chunks are joined in order of arrival
recover_join_arrival(d, total) == Concat([i \in 1..total |-> d[i][2]])

\* b''.join(chunks_dict[i] for i in range(total_chunks))
recover_join(d, total) == Concat([i \in 1..total |-> DictGet(d, i - 1)])

\* ------------------------------------------------------------- state ----
VARIABLES
    pc,               \* where the run is: idle, embedding, enc_done, enc_failed,
                      \* decoding, dec_done, dec_failed
    zip_data,         \* the archive bytes (zip_data)
    image_list,       \* the carrier image paths, in the order given
    chunks,           \* chunks of embed_zip_of_dir_into_images
    total_chunks,     \* total_chunks of embed_zip_of_dir_into_images
    enc_i,            \* index i of the embed loop
    error,            \* the exception that ended the run, or None
    files,            \* stego image files: name |-> image
    dry_report,       \* what dry_run_encode printed, or None
    embedded_images,  \* the names handed to recover_zip_from_images
    processed,        \* the names the decode loop has iterated over, in order
    chunks_dict,      \* chunks_dict of recover_zip_from_images
    dec_total,        \* total_chunks of recover_zip_from_images
    output_zip        \* the bytes written to output_zip_path, or None

vars == <<pc, zip_data, image_list, chunks, total_chunks, enc_i, error, files,
          dry_report, embedded_images, processed, chunks_dict, dec_total,
          output_zip>>

encVars == <<chunks, total_chunks, enc_i>>
decVars == <<embedded_images, processed, chunks_dict, dec_total, output_zip>>

RECURSIVE SeqsUpTo(_, _)
SeqsUpTo(S, n) ==
    IF n = 0 THEN {<<>>}
    ELSE LET shorter == SeqsUpTo(S, n - 1)
         IN shorter \cup {Append(s, e) : s \in shorter, e \in S}

NoFiles == <<>>

\* a run of main: an archive (never empty) and at least one carrier image
Init ==
    /\ pc = "idle"
    /\ zip_data \in SeqsUpTo(ByteVals, MaxBytes) \ {<<>>}
    /\ image_list \in SeqsUpTo(Dims, MaxImages) \ {<<>>}
    /\ chunks = <<>>
    /\ total_chunks = 0
    /\ enc_i = 0
    /\ error = NoError
    /\ files = NoFiles
    /\ dry_report = NoValue
    /\ embedded_images = {}
    /\ processed = <<>>
    /\ chunks_dict = <<>>
    /\ dec_total = NoValue
    /\ output_zip = NoValue

\* ------------------------------------------------------------ dry run ----
\* dry_run_encode on the inputs the encode is about to get
DryRun ==
    /\ pc = "idle"
    /\ dry_report = NoValue
    /\ dry_report' = Some(dry_report_of(zip_data, image_list))
    /\ UNCHANGED <<pc, zip_data, image_list, encVars, error, files, decVars>>

\* ------------------------------------------------------------- encode ----
\* embed_zip_of_dir_into_images up to the embed loop (lines 101-127)
EncodeBegin ==
    /\ pc = "idle"
    /\ LET zip_bits == bytes_to_bits(zip_data)
           caps     == Capacities(image_list)
       IN IF Len(zip_bits) > SumSeq(caps)
          THEN /\ pc' = "enc_failed"
               /\ error' = Err("NotEnoughCapacity", <<>>)
               /\ UNCHANGED encVars
          ELSE /\ chunks' = SplitChunks(zip_bits, caps, 1, 0)
               /\ total_chunks' = Len(chunks')
               /\ enc_i' = 0
               /\ pc' = "embedding"
               /\ UNCHANGED error
    /\ UNCHANGED <<zip_data, image_list, files, dry_report, decVars>>

\* one iteration of the embed loop (lines 130-132)
EmbedNext ==
    /\ pc = "embedding"
    /\ LET res == embed_bits_in_image(image_list[enc_i + 1], chunks[enc_i + 1],
                                      enc_i, total_chunks)
       IN IF res.ok
          THEN /\ files' = [n \in DOMAIN files \cup {enc_i} |->
                              IF n = enc_i THEN res.img ELSE files[n]]
               /\ enc_i' = enc_i + 1
               /\ pc' = IF enc_i + 1 = Len(image_list) THEN "enc_done"
                        ELSE "embedding"
               /\ UNCHANGED error
          ELSE /\ pc' = "enc_failed"
               /\ error' = Err("ImageNotLargeEnough", <<>>)
               /\ UNCHANGED <<files, enc_i>>
    /\ UNCHANGED <<zip_data, image_list, chunks, total_chunks, dry_report, decVars>>

\* ------------------------------------------------------------- decode ----
\* recover_zip_from_images is called on every stego image the encode wrote
DecodeBegin ==
    /\ pc = "enc_done"
    /\ pc' = "decoding"
    /\ embedded_images' = DOMAIN files
    /\ UNCHANGED <<zip_data, image_list, encVars, error, files, dry_report,
                   processed, chunks_dict, dec_total, output_zip>>

\* the loop body of recover_zip_from_images for one image (lines 139-142)
recover_step(d, total, img) ==
    LET ext == extract_bits_from_image(img)
    IN <<DictSet(d, ext[1], ext[3]), IF total = NoValue THEN Some(ext[2]) ELSE total>>

Seen == {processed[k] : k \in 1..Len(processed)}

\* the list may come in any order: the next element is any name not yet seen
RecoverNext ==
    /\ pc = "decoding"
    /\ \E n \in embedded_images \ Seen :
         LET res == recover_step(chunks_dict, dec_total, files[n])
         IN /\ chunks_dict' = res[1]
            /\ dec_total' = res[2]
            /\ processed' = Append(processed, n)
    /\ UNCHANGED <<pc, zip_data, image_list, encVars, error, files, dry_report,
                   embedded_images, output_zip>>

\* <<error, written bytes>> of lines 145-152
recover_finish(d, total) ==
    IF total = NoValue \/ Len(d) # ValueOf(total)
    THEN <<Err("MissingChunks", <<>>), NoValue>>
    ELSE LET absent == {i \in 0..(ValueOf(total) - 1) : i \notin DictKeys(d)}
         IN IF absent # {}
            THEN <<Err("KeyError", <<CHOOSE i \in absent : \A j \in absent : i <= j>>),
                   NoValue>>
            ELSE <<NoError, Some(recover_join(d, ValueOf(total)))>>

RecoverFinish ==
    /\ pc = "decoding"
    /\ Seen = embedded_images
    /\ LET res == recover_finish(chunks_dict, dec_total)
       IN /\ error' = res[1]
          /\ output_zip' = res[2]
          /\ pc' = IF res[1] = NoError THEN "dec_done" ELSE "dec_failed"
    /\ UNCHANGED <<zip_data, image_list, encVars, files, dry_report,
                   embedded_images, processed, chunks_dict, dec_total>>

\* encode and dry run on the same inputs
Next ==
    \/ DryRun
    \/ EncodeBegin
    \/ EmbedNext

Spec == Init /\ [][Next]_vars

\* encode, then decode of everything the encode wrote
NextRT ==
    \/ EncodeBegin
    \/ EmbedNext
    \/ DecodeBegin
    \/ RecoverNext
    \/ RecoverFinish

SpecRT == Init /\ [][NextRT]_vars

\* stand-alone decode of a set of stego images, named by the frame they carry
PoolImage(f) == embed_bits_in_image(<<13, 8>>, f[3], f[1], f[2]).img

InitDec ==
    /\ pc = "decoding"
    /\ embedded_images \in {S \in SUBSET PoolFrames :
                               Cardinality(S) \in 1..MaxDecImages}
    /\ files = [f \in embedded_images |-> PoolImage(f)]
    /\ zip_data = <<>>
    /\ image_list = <<>>
    /\ chunks = <<>>
    /\ total_chunks = 0
    /\ enc_i = 0
    /\ error = NoError
    /\ dry_report = NoValue
    /\ processed = <<>>
    /\ chunks_dict = <<>>
    /\ dec_total = NoValue
    /\ output_zip = NoValue

NextDec ==
    \/ RecoverNext
    \/ RecoverFinish

SpecDec == InitDec /\ [][NextDec]_vars

\* ============================================================ claims ====
\* quantities the statements are about, taken from the inputs directly
PayloadBitCount == 8 * Len(zip_data)
PixelCount(img_path) == img_path[1] * img_path[2]
CapacityOf(img_path) == PixelCount(img_path) - 96
CapacitySum == SumSeq([j \in 1..Len(image_list) |-> CapacityOf(image_list[j])])
EncodeOver == pc \in {"enc_done", "enc_failed"}
DecodeOver == pc \in {"dec_done", "dec_failed"}
\* what each supplied stego image carries
FrameOf(n) == extract_bits_from_image(files[n])
SeenIndices == {FrameOf(n)[1] : n \in Seen}

\* C1: round trip. Once every stego image of an encode has been decoded, the
\* decode has succeeded and the recovered blob equals the encoded blob byte for
\* byte.
C1_RoundTrip ==
    (DecodeOver /\ embedded_images = DOMAIN files /\ CapacitySum >= PayloadBitCount)
        => (pc = "dec_done" /\ output_zip = Some(zip_data))

\* C2: completeness. When the decode loop is over, the decode fails with the
\* missing-chunks error, and writes nothing, whenever the collected indices are
\* not exactly 0..total-1 (total = first-seen total_chunks); it succeeds only
\* on the dense range. (That the error also names the missing indices is left
\* out of the formula: the statement already fails on the kind of the error.)
C2_Completeness ==
    DecodeOver =>
        LET total == ValueOf(dec_total)
            dense == 0..(total - 1)
            keys  == SeenIndices
        IN /\ (keys # dense) =>
                  /\ pc = "dec_failed"
                  /\ error.kind = "MissingChunks"
                  /\ output_zip = NoValue
           /\ (pc = "dec_done") => (keys = dense)

C4_CapacityBoundary ==
    /\ \A i \in DOMAIN files :
          PixelCount(image_list[i + 1]) = 96 => Len(chunks[i + 1]) = 0
    /\ (pc # "idle" /\ \E j \in 1..Len(image_list) : CapacityOf(image_list[j]) < 0)
          => /\ pc = "enc_failed"
             /\ error.kind = "NotEnoughCapacity"
             /\ chunks = <<>>
             /\ files = NoFiles

\* C5: the dry run agrees with the encode. On the same inputs the dry run
\* reports not enough capacity exactly when the encode fails on capacity, and
\* otherwise lists exactly the images the encode writes a frame into, each with
\* the payload_bit_length of its frame. (Stated for carriers of at least 96
\* pixels, where no capacity is negative.)
C5_DryRunAgrees ==
    (/\ dry_report # NoValue
     /\ EncodeOver
     /\ \A j \in 1..Len(image_list) : CapacityOf(image_list[j]) >= 0) =>
        LET rep == ValueOf(dry_report)
        IN /\ (~rep.enough) <=> (pc = "enc_failed")
           /\ rep.enough =>
                /\ {rep.lines[k][1] : k \in 1..Len(rep.lines)} = DOMAIN files
                /\ \A k \in 1..Len(rep.lines) :
                     rep.lines[k][2] = Len(chunks[rep.lines[k][1] + 1])

\* every order in which a set of names can be listed
Orders(S) ==
    {q \in [1..Cardinality(S) -> S] : \A a, b \in DOMAIN q : q[a] = q[b] => a = b}

\* the decode of the list q, start to end: <<error, written bytes>>
RECURSIVE RecoverLoop(_, _, _, _)
RecoverLoop(q, k, d, total) ==
    IF k > Len(q) THEN recover_finish(d, total)
    ELSE LET res == recover_step(d, total, files[q[k]])
         IN RecoverLoop(q, k + 1, res[1], res[2])

\* C6 as stated: for any set of stego images the decode has the same outcome
\* (the same blob or the same failure) in whatever order the images are listed.
C6_AnyOrderSameOutcome ==
    DecodeOver =>
        \A q \in Orders(embedded_images) :
            RecoverLoop(q, 1, <<>>, NoValue) = <<error, output_zip>>

\* the supplied images carry pairwise distinct indices and one common total
ConsistentSet ==
    \A m, n \in embedded_images :
        /\ FrameOf(m)[2] = FrameOf(n)[2]
        /\ (m # n) => FrameOf(m)[1] # FrameOf(n)[1]

\* C6 as amended: for any set of stego images that carry pairwise distinct
\* chunk_index values and the same total_chunks, the decode has the same
\* outcome in whatever order the images are listed.
C6_OrderIndependent ==
    (DecodeOver /\ ConsistentSet) =>
        \A q \in Orders(embedded_images) :
            RecoverLoop(q, 1, <<>>, NoValue) = <<error, output_zip>>

\* a complete two-chunk set was decoded with chunk 1 arriving before chunk 0
C6_Witness ==
    /\ pc = "dec_done"
    /\ ConsistentSet
    /\ Len(processed) = 2
    /\ FrameOf(processed[1])[1] = 1
    /\ FrameOf(processed[2])[1] = 0
    /\ FrameOf(processed[1])[3] # FrameOf(processed[2])[3]

\* the plan of a finished encode, read off the chunks
Allotted(j) == Len(chunks[j])
StartOf(j) == SumSeq([k \in 1..(j - 1) |-> Allotted(k)])
\* the payload_bit_length field of the frame in stego image i
LengthField(i) == bits_to_int(PySlice(ReadBits(files[i]), 64, 96))

\* C7: greedy split. In every successful encode image j, in the order given,
\* is allotted min(remaining bits, capacity of j) payload bits starting where
\* image j-1 stopped; the allotments sum to the payload bit length, none
\* exceeds its image's capacity, and an image that receives fewer bits than its
\* capacity is the last one to receive any.
C7_GreedySplit ==
    (pc = "enc_done") =>
        /\ \A j \in 1..Len(image_list) :
             LET cap == CapacityOf(image_list[j])
             IN /\ Allotted(j) = Min(PayloadBitCount - StartOf(j), cap)
                /\ chunks[j] = SubSeq(bytes_to_bits(zip_data),
                                      StartOf(j) + 1, StartOf(j) + Allotted(j))
                /\ LengthField(j - 1) = Allotted(j)
                /\ Allotted(j) <= cap
                /\ (Allotted(j) < cap)
                      => \A k \in (j + 1)..Len(image_list) : Allotted(k) = 0
        /\ StartOf(Len(image_list) + 1) = PayloadBitCount

\* a successful encode filled its first image and part of a later one
C7_Witness ==
    /\ pc = "enc_done"
    /\ Len(image_list) = 3
    /\ Allotted(1) = CapacityOf(image_list[1])
    /\ Allotted(1) > 0
    /\ Allotted(2) > 0
    /\ Allotted(2) < CapacityOf(image_list[2])

\* the number of images the payload needs: the first position, in the order
\* given, at which the capacities so far cover the payload
PlanLength ==
    CHOOSE m \in 1..Len(image_list) :
        /\ SumSeq([j \in 1..m |-> CapacityOf(image_list[j])]) >= PayloadBitCount
        /\ \A l \in 1..(m - 1) :
             SumSeq([j \in 1..l |-> CapacityOf(image_list[j])]) < PayloadBitCount

\* C8: chunk numbering. The plan stops at the image where the payload is
\* exhausted and total_chunks is its length; a successful encode writes a frame
\* into exactly the images of the plan, each carrying its position as
\* chunk_index and that total_chunks, so the indices are the dense range
\* 0..total_chunks-1; later images get no frame and are not counted.
C8_ChunkNumbering ==
    (pc = "enc_done") =>
        /\ total_chunks = PlanLength
        /\ DOMAIN files = 0..(PlanLength - 1)
        /\ \A i \in DOMAIN files :
             /\ FrameOf(i)[1] = i
             /\ FrameOf(i)[2] = total_chunks
             /\ 0 <= FrameOf(i)[1] /\ FrameOf(i)[1] < FrameOf(i)[2]

\* the frame handed to embed_bits_in_image for image i of the list
FrameBits(i) == header_bits(i, total_chunks, Len(chunks[i + 1])) \o chunks[i + 1]

\* C9: embed frame effect. A frame of n <= width*height bits sets the red LSB of
\* the k-th pixel in row-major order to frame bit k for every k < n and changes
\* nothing else: not the upper 7 red bits, not green or blue, not a pixel at
\* position >= n. A frame of n > width*height bits fails and no image is written.
C9_EmbedFrameEffect ==
    /\ \A i \in DOMAIN files :
         LET src   == OpenImage(image_list[i + 1])
             out   == files[i]
             frame == FrameBits(i)
         IN /\ Len(frame) <= src.width * src.height
            /\ out.width = src.width /\ out.height = src.height
            /\ \A x \in 0..(src.width - 1), y \in 0..(src.height - 1) :
                 LET k == y * src.width + x
                     a == PixelAt(src, x, y)
                     b == PixelAt(out, x, y)
                 IN IF k < Len(frame)
                    THEN /\ b[1] % 2 = frame[k + 1]
                         /\ b[1] \div 2 = a[1] \div 2
                         /\ b[2] = a[2]
                         /\ b[3] = a[3]
                    ELSE b = a
    /\ (pc \in {"embedding", "enc_done"} \/ error.kind = "ImageNotLargeEnough")
          => \A i \in 0..(Len(image_list) - 1) :
               /\ (i < enc_i) => i \in DOMAIN files
               /\ (Len(FrameBits(i)) > PixelCount(image_list[i + 1]))
                     => i \notin DOMAIN files
    /\ (error.kind = "ImageNotLargeEnough")
          => /\ pc = "enc_failed"
             /\ Len(FrameBits(enc_i)) > PixelCount(image_list[enc_i + 1])
             /\ DOMAIN files = 0..(enc_i - 1)

\* a frame with payload filled its image, a shorter frame was written into an
\* image with pixels to spare, turning one red LSB to 1 and another to 0, and
\* the next frame was too long for its image
C9_Witness ==
    /\ error.kind = "ImageNotLargeEnough"
    /\ \E h \in DOMAIN files :
         /\ Len(chunks[h + 1]) > 0
         /\ Len(FrameBits(h)) = PixelCount(image_list[h + 1])
    /\ \E i \in DOMAIN files :
         LET src == OpenImage(image_list[i + 1])
         IN /\ Len(FrameBits(i)) < PixelCount(image_list[i + 1])
            /\ src.width # src.height
            /\ \E x1, x2 \in 0..(src.width - 1), y1, y2 \in 0..(src.height - 1) :
                 /\ PixelAt(src, x1, y1)[1] % 2 = 0
                 /\ PixelAt(files[i], x1, y1)[1] % 2 = 1
                 /\ PixelAt(src, x2, y2)[1] % 2 = 1
                 /\ PixelAt(files[i], x2, y2)[1] % 2 = 0

\* C10: duplicate chunk index. The accumulator holds, for every index seen, the
\* payload of the image processed last with that index; the loop raises nothing;
\* the expected count stays the total_chunks of the first image processed.
C10_LastWriteWins ==
    /\ DictKeys(chunks_dict) = SeenIndices
    /\ \A key \in DictKeys(chunks_dict) :
         LET at   == {k \in 1..Len(processed) : FrameOf(processed[k])[1] = key}
             last == CHOOSE k \in at : \A l \in at : l <= k
         IN DictGet(chunks_dict, key) = FrameOf(processed[last])[3]
    /\ (processed # <<>>) => dec_total = Some(FrameOf(processed[1])[2])
    /\ (pc = "decoding") => error = NoError

\* an index came twice with different payloads, and an image processed after
\* the first carried another total
C10_Witness ==
    /\ \E a, b \in 1..Len(processed) :
         /\ a < b
         /\ FrameOf(processed[a])[1] = FrameOf(processed[b])[1]
         /\ FrameOf(processed[a])[3] # FrameOf(processed[b])[3]
    /\ \E c \in 2..Len(processed) : Some(FrameOf(processed[c])[2]) # dec_total

====
